---- MODULE Spec2Model ----
(***************************************************************************)
(* cowin-slack: one run of main() in src/main.rs.                          *)
(*   fetch_district_slots -> check_viable_slots -> post_slot_to_slack for  *)
(*   each slot -> post_debug_to_slack -> println.                          *)
(* The network is the environment: every send() either fails at the        *)
(* transport level or returns a response with some HTTP status.            *)
(***************************************************************************)
EXTENDS Integers, Sequences, FiniteSets, TLC

VARIABLES opts, pc, api_resp, slots, idx, net, err, exit_code, stdout

vars == <<opts, pc, api_resp, slots, idx, net, err, exit_code, stdout>>

(***************************************************************************)
(* Bounds of the model.                                                    *)
(***************************************************************************)
MaxCenters == 2
\* Sessions in one response, over all its centers.
MaxTotalSessions == 3

(***************************************************************************)
(* Program constants.                                                      *)
(***************************************************************************)
DUMMY_BROWSER_AGENT == "Mozilla/5.0 (X11; Linux x86_64; rv:88.0) Gecko/20100101 Firefox/88.0"

API_BASE == "https://cdn-api.co-vin.in/api/v2/appointment/sessions"

BOT_USERNAME == "Tux-Sudo CoWin Bot"

\* Exit status of a Rust process whose main thread panicked (expect on Err).
PANIC_EXIT == 101

\* exit_code while main() has not returned yet.
RUNNING == -1

(***************************************************************************)
(* Input domains.                                                          *)
(***************************************************************************)
\* struct Session
NewSession(capacity, age, dose1) ==
  [date |-> "10-05-2021",
   available_capacity |-> capacity,
   min_age_limit |-> age,
   vaccine |-> "COVISHIELD",
   available_capacity_dose1 |-> dose1,
   available_capacity_dose2 |-> 7]

\* The sessions fed to the filter, on and next to the limits of its rules.
Sessions ==
  {NewSession(10, 18, 5),    \* passes every rule
   NewSession(10, 19, 5),    \* too old for only_18plus
   NewSession(10, 18, 4),    \* too few first doses for only_first_dose
   NewSession(10, 17, 0),    \* limit below 18, no first dose
   NewSession(0, 18, 5),     \* no capacity
   NewSession(-1, 17, 0)}    \* negative capacity

\* The sessions fed to a whole run: one that passes every rule, the session
\* of the documented scenario (45+, no first dose), and one without capacity.
RunSessions ==
  {NewSession(10, 18, 5), NewSession(10, 45, 0), NewSession(0, 18, 5)}

\* Values a min_age_limit or an available_capacity_dose1 is changed to.
AgeValues == {17, 18, 19, 45}
Dose1Values == {0, 1, 4, 5, 6}

SeqsUpTo(S, n) == UNION {[1..k -> S] : k \in 0..n}

\* struct Center: the i-th center of a response, with its sessions.
NewCenter(i, ss) ==
  [center_id |-> i,
   name |-> "Center " \o ToString(i),
   address |-> ToString(i) \o " Main St",
   pincode |-> 110000 + i,
   fee_type |-> "Free",
   sessions |-> ss]

\* The ways to hand n sessions to c centers in order: session k goes to
\* center cut[k].
Cuts(n, c) ==
  {cut \in [1..n -> 1..c] : \A k \in 1..(n - 1) : cut[k] <= cut[k + 1]}

\* The sessions of flat that cut hands to center i.
Part(flat, cut, i) ==
  LET first == Cardinality({k \in 1..Len(flat) : cut[k] < i})
      n == Cardinality({k \in 1..Len(flat) : cut[k] = i})
  IN SubSeq(flat, first + 1, first + n)

\* struct Resp: c centers that share the sessions of flat as cut says.
NewResp(c, flat, cut) ==
  [centers |-> [i \in 1..c |-> NewCenter(i, Part(flat, cut, i))]]

\* The value of api_resp before the fetch returned.
NoResp == [centers |-> <<>>]

\* --district-id: the default and another district.
DistrictIds == {"188", "512"}

\* struct Opts, as filled in by Opts::parse()
OptsValues ==
  [age_18_plus : BOOLEAN,
   first_dose_only : BOOLEAN,
   district_id : DistrictIds,
   slack_hook : {"https://hooks.example/T000"},
   slack_main_channel : {"#vaccine"},
   slack_debug_channel : {"#vaccine-debug"}]

\* get_today_ist(): the civil date in Asia/Kolkata, formatted %d-%m-%Y.
TodayIST == {"10-05-2021"}

(***************************************************************************)
(* The network.                                                            *)
(***************************************************************************)
\* struct SlackPayload
NoPayload == [channel |-> "", text |-> "", username |-> ""]

\* What send() can give back: Err (transport) or Ok(response with a status).
TRANSPORT_ERROR == 0
GetStatuses == {200, 500, 503}
PostStatuses == {200, 404}

\* StatusCode::canonical_reason: the reason phrase of a registered status.
CanonicalReason(s) ==
  CASE s = 100 -> "Continue"
    [] s = 101 -> "Switching Protocols"
    [] s = 102 -> "Processing"
    [] s = 200 -> "OK"
    [] s = 201 -> "Created"
    [] s = 202 -> "Accepted"
    [] s = 203 -> "Non Authoritative Information"
    [] s = 204 -> "No Content"
    [] s = 205 -> "Reset Content"
    [] s = 206 -> "Partial Content"
    [] s = 207 -> "Multi-Status"
    [] s = 208 -> "Already Reported"
    [] s = 226 -> "IM Used"
    [] s = 300 -> "Multiple Choices"
    [] s = 301 -> "Moved Permanently"
    [] s = 302 -> "Found"
    [] s = 303 -> "See Other"
    [] s = 304 -> "Not Modified"
    [] s = 305 -> "Use Proxy"
    [] s = 307 -> "Temporary Redirect"
    [] s = 308 -> "Permanent Redirect"
    [] s = 400 -> "Bad Request"
    [] s = 401 -> "Unauthorized"
    [] s = 402 -> "Payment Required"
    [] s = 403 -> "Forbidden"
    [] s = 404 -> "Not Found"
    [] s = 405 -> "Method Not Allowed"
    [] s = 406 -> "Not Acceptable"
    [] s = 407 -> "Proxy Authentication Required"
    [] s = 408 -> "Request Timeout"
    [] s = 409 -> "Conflict"
    [] s = 410 -> "Gone"
    [] s = 411 -> "Length Required"
    [] s = 412 -> "Precondition Failed"
    [] s = 413 -> "Payload Too Large"
    [] s = 414 -> "URI Too Long"
    [] s = 415 -> "Unsupported Media Type"
    [] s = 416 -> "Range Not Satisfiable"
    [] s = 417 -> "Expectation Failed"
    [] s = 418 -> "I'm a teapot"
    [] s = 421 -> "Misdirected Request"
    [] s = 422 -> "Unprocessable Entity"
    [] s = 423 -> "Locked"
    [] s = 424 -> "Failed Dependency"
    [] s = 426 -> "Upgrade Required"
    [] s = 428 -> "Precondition Required"
    [] s = 429 -> "Too Many Requests"
    [] s = 431 -> "Request Header Fields Too Large"
    [] s = 451 -> "Unavailable For Legal Reasons"
    [] s = 500 -> "Internal Server Error"
    [] s = 501 -> "Not Implemented"
    [] s = 502 -> "Bad Gateway"
    [] s = 503 -> "Service Unavailable"
    [] s = 504 -> "Gateway Timeout"
    [] s = 505 -> "HTTP Version Not Supported"
    [] s = 506 -> "Variant Also Negotiates"
    [] s = 507 -> "Insufficient Storage"
    [] s = 508 -> "Loop Detected"
    [] s = 510 -> "Not Extended"
    [] s = 511 -> "Network Authentication Required"
    [] OTHER -> "<unknown status code>"

\* Display of a StatusCode: the number and its canonical reason.
StatusDisplay(s) == ToString(s) \o " " \o CanonicalReason(s)

\* `{:?}` of a string that holds no character to escape.
DebugStr(str) == "\"" \o str \o "\""

\* failure::err_msg(msg): Display is the message, Debug the ErrorMessage.
ErrorMessage(msg) ==
  [display |-> msg,
   debug |-> "ErrorMessage { msg: " \o DebugStr(msg) \o " }"]

\* A serde_json::Error with its message and the place in the body.
JsonError(msg, line, column) ==
  [display |-> msg \o " at line " \o ToString(line)
                   \o " column " \o ToString(column),
   debug |-> "Error(" \o DebugStr(msg) \o ", line: " \o ToString(line)
                      \o ", column: " \o ToString(column) \o ")"]

\* The errors serde_json gives for bodies that are no JSON document: text
\* that is no JSON value ("BAD"), an empty body, an object cut short ("{").
JsonErrors ==
  {JsonError("expected value", 1, 1),
   JsonError("EOF while parsing a value", 1, 0),
   JsonError("EOF while parsing an object", 1, 1)}

\* No error.
NoError == [display |-> "", debug |-> ""]

\* A parsed url::Url without credentials, port or fragment; query "" is None.
Url(scheme, host, path, query) ==
  [scheme |-> scheme, host |-> host, path |-> path, query |-> query]

\* Display of a Url: the url as written.
UrlDisplay(u) ==
  u.scheme \o "://" \o u.host \o u.path
    \o (IF u.query = "" THEN "" ELSE "?" \o u.query)

\* Debug of a Url.
UrlDebug(u) ==
  "Url { scheme: " \o DebugStr(u.scheme)
    \o ", cannot_be_a_base: false, username: \"\", password: None"
    \o ", host: Some(Domain(" \o DebugStr(u.host) \o ")), port: None"
    \o ", path: " \o DebugStr(u.path)
    \o ", query: " \o (IF u.query = "" THEN "None"
                       ELSE "Some(" \o DebugStr(u.query) \o ")")
    \o ", fragment: None }"

\* The urls a run sends requests to.
KnownUrls ==
  {Url("https", "hooks.example", "/T000", "")} \cup
  {Url("https", "cdn-api.co-vin.in",
       "/api/v2/appointment/sessions/calendarByDistrict",
       "district_id=" \o d \o "&date=" \o t) :
     d \in DistrictIds, t \in TodayIST}

\* Url::parse of the url of a request.
ParseUrl(str) == CHOOSE u \in KnownUrls : UrlDisplay(u) = str

\* The ways a send() fails in transport: the source of the reqwest::Error,
\* a refused connection or the client's timeout.
TransportFailures ==
  {[display |-> "error trying to connect: tcp connect error: "
                  \o "Connection refused (os error 111)",
    debug |-> "hyper::Error(Connect, ConnectError(\"tcp connect error\", "
                \o "Os { code: 111, kind: ConnectionRefused, "
                \o "message: \"Connection refused\" }))"],
   [display |-> "operation timed out",
    debug |-> "TimedOut"]}

\* The reqwest::Error of a send() to url that failed with source: Display
\* and Debug name the url of the request and the source.
ReqwestError(url, source) ==
  [display |-> "error sending request for url (" \o UrlDisplay(ParseUrl(url))
                 \o "): " \o source.display,
   debug |-> "reqwest::Error { kind: Request, url: " \o UrlDebug(ParseUrl(url))
               \o ", source: " \o source.debug \o " }"]

(***************************************************************************)
(* check_viable_slots                                                      *)
(***************************************************************************)
\* Mutant: the age rule applied whether or not only_18plus is set.
SkipAge_AlwaysOn(session, only_18plus) ==
  session.min_age_limit > 18

\* `if only_18plus && session.min_age_limit > 18 { continue; }`
SkipAge(session, only_18plus) ==
  only_18plus /\ session.min_age_limit > 18

\* Mutant: the first-dose rule asks for any first dose instead of 5.
SkipDose1_AnyDose(session, only_first_dose) ==
  only_first_dose /\ session.available_capacity_dose1 <= 0

\* `if only_first_dose && session.available_capacity_dose1 < 5 { continue; }`
SkipDose1(session, only_first_dose) ==
  only_first_dose /\ session.available_capacity_dose1 < 5

\* Mutant: the capacity rule lets capacity 0 through.
HasCapacity_ZeroAllowed(session) ==
  session.available_capacity >= 0

\* `if session.available_capacity > 0 { ... }`
HasCapacity(session) ==
  session.available_capacity > 0

\* Mutant: the two dose capacities copied into each other's field.
NewSlot_DosesSwapped(center, session) ==
  [center |-> center.name,
   address |-> center.address,
   date |-> session.date,
   vaccine |-> session.vaccine,
   available_capacity |-> session.available_capacity,
   available_capacity_dose1 |-> session.available_capacity_dose2,
   available_capacity_dose2 |-> session.available_capacity_dose1,
   min_age_limit |-> session.min_age_limit]

\* `let slot = Slot { ... }`
NewSlot(center, session) ==
  [center |-> center.name,
   address |-> center.address,
   date |-> session.date,
   vaccine |-> session.vaccine,
   available_capacity |-> session.available_capacity,
   available_capacity_dose1 |-> session.available_capacity_dose1,
   available_capacity_dose2 |-> session.available_capacity_dose2,
   min_age_limit |-> session.min_age_limit]

\* Mutant: the new slot is put in front of the list instead of pushed.
SessionStep_Prepend(acc, center, session, only_18plus, only_first_dose) ==
  IF only_18plus /\ session.min_age_limit > 18 THEN acc
  ELSE IF only_first_dose /\ session.available_capacity_dose1 < 5 THEN acc
  ELSE IF session.available_capacity > 0
    THEN <<[center |-> center.name,
            address |-> center.address,
            date |-> session.date,
            vaccine |-> session.vaccine,
            available_capacity |-> session.available_capacity,
            available_capacity_dose1 |-> session.available_capacity_dose1,
            available_capacity_dose2 |-> session.available_capacity_dose2,
            min_age_limit |-> session.min_age_limit]>> \o acc
  ELSE acc

\* The body of `for session in center.sessions.iter()` for one session:
\* the value of `slots` after it.
SessionStep(acc, center, session, only_18plus, only_first_dose) ==
  IF SkipAge(session, only_18plus) THEN acc
  ELSE IF SkipDose1(session, only_first_dose) THEN acc
  ELSE IF HasCapacity(session) THEN Append(acc, NewSlot(center, session))
  ELSE acc

\* `for session in center.sessions.iter()`, from the k-th session on.
RECURSIVE SessionLoop(_, _, _, _, _)
SessionLoop(acc, center, k, only_18plus, only_first_dose) ==
  IF k > Len(center.sessions) THEN acc
  ELSE SessionLoop(
         SessionStep(acc, center, center.sessions[k], only_18plus, only_first_dose),
         center, k + 1, only_18plus, only_first_dose)

\* `for center in api_resp.centers.iter()`, from the c-th center on.
RECURSIVE CenterLoop(_, _, _, _, _)
CenterLoop(acc, centers, c, only_18plus, only_first_dose) ==
  IF c > Len(centers) THEN acc
  ELSE CenterLoop(
         SessionLoop(acc, centers[c], 1, only_18plus, only_first_dose),
         centers, c + 1, only_18plus, only_first_dose)

check_viable_slots(resp, only_18plus, only_first_dose) ==
  CenterLoop(<<>>, resp.centers, 1, only_18plus, only_first_dose)

(***************************************************************************)
(* fetch_district_slots                                                    *)
(***************************************************************************)
\* The URL built in pin_url.
PinUrl(district_id, today) ==
  API_BASE \o "/calendarByDistrict?district_id=" \o district_id
           \o "&date=" \o today

\* The request fetch_district_slots sends.
GetRequest(district_id, today, status) ==
  [method |-> "GET", url |-> PinUrl(district_id, today),
   headers |-> <<<<"User-Agent", DUMMY_BROWSER_AGENT>>,
                 <<"Pragma", "no-cache">>,
                 <<"Cache-Control", "no-cache">>>>,
   payload |-> NoPayload,
   status |-> status]

\* An answer of the upstream API to the GET: send() fails with source, or a
\* response with a status and a body; serde_json decodes the body as resp,
\* or rejects it with json_err.
GetAnswer(status, source, json_err, resp) ==
  [status |-> status,
   source |-> IF status = TRANSPORT_ERROR THEN source ELSE NoError,
   decodable |-> json_err = NoError /\ status # TRANSPORT_ERROR,
   body |-> IF json_err = NoError /\ status # TRANSPORT_ERROR
              THEN resp ELSE NoResp,
   json_err |-> IF status = TRANSPORT_ERROR THEN NoError ELSE json_err]

\* Result<Resp, Error>: err is the Display of the error, debug its Debug.
FetchOk(resp) ==
  [ok |-> TRUE, resp |-> resp, err |-> "", debug |-> ""]
FetchErr(e) ==
  [ok |-> FALSE, resp |-> NoResp, err |-> e.display, debug |-> e.debug]

\* Mutant: the body is decoded without a look at the status.
fetch_district_slots_NoStatusCheck(district_id, today, answer) ==
  IF answer.status = TRANSPORT_ERROR
    THEN FetchErr(ReqwestError(PinUrl(district_id, today), answer.source))
  ELSE IF answer.decodable THEN FetchOk(answer.body)
  ELSE FetchErr(answer.json_err)

\* The Result of fetch_district_slots given today's date and the answer to
\* its GET.
fetch_district_slots(district_id, today, answer) ==
  IF answer.status = TRANSPORT_ERROR
    THEN FetchErr(ReqwestError(PinUrl(district_id, today), answer.source))
  ELSE IF answer.status = 200
    THEN IF answer.decodable
           THEN FetchOk(answer.body)
           ELSE FetchErr(answer.json_err)
  ELSE FetchErr(ErrorMessage("Bad Return Code: " \o StatusDisplay(answer.status)))

(***************************************************************************)
(* post_slot_to_slack, post_debug_to_slack                                 *)
(***************************************************************************)
\* data_text: the format! template with its eight fields filled in.
SlotText(slot) ==
  ":large_green_circle: [Vaccine Slot]\n"
    \o "        Date: " \o slot.date \o ",\n"
    \o "        Center: " \o slot.center \o ",\n"
    \o "        Address: " \o slot.address \o ",\n"
    \o "        Vaccine: " \o slot.vaccine \o ",\n"
    \o "        Available Capacity: " \o ToString(slot.available_capacity) \o ",\n"
    \o "        1st Dose Capacity: " \o ToString(slot.available_capacity_dose1) \o ",\n"
    \o "        2nd Dose Capacity: " \o ToString(slot.available_capacity_dose2) \o ",\n"
    \o "        Min Age Limit: " \o ToString(slot.min_age_limit) \o ",\n"
    \o "        "

\* What the webhook can answer to a POST.
PostAnswers ==
  {[status |-> st, source |-> NoError] : st \in PostStatuses} \cup
  {[status |-> TRANSPORT_ERROR, source |-> f] : f \in TransportFailures}

\* `client.post(hook_url).json(&payload).send()?; Ok(())`: only a send() that
\* returns Err makes the function return Err; the response is dropped.
SendResult(url, answer) ==
  IF answer.status = TRANSPORT_ERROR
    THEN [ok |-> FALSE, err |-> ReqwestError(url, answer.source).display,
          debug |-> ReqwestError(url, answer.source).debug]
    ELSE [ok |-> TRUE, err |-> "", debug |-> ""]

\* The request post_slot_to_slack sends and the Result it returns.
\* .json(&payload) sets the body and the Content-Type header.
post_slot_to_slack(slot, hook_url, channel, answer) ==
  [request |-> [method |-> "POST", url |-> hook_url,
                headers |-> <<<<"Content-Type", "application/json">>>>,
                payload |-> [channel |-> channel, text |-> SlotText(slot),
                             username |-> BOT_USERNAME],
                status |-> answer.status],
   result |-> SendResult(hook_url, answer)]

\* The request post_debug_to_slack sends and the Result it returns.
\* .json(&payload) sets the body and the Content-Type header.
post_debug_to_slack(message, hook_url, channel, answer) ==
  [request |-> [method |-> "POST", url |-> hook_url,
                headers |-> <<<<"Content-Type", "application/json">>>>,
                payload |-> [channel |-> channel, text |-> message,
                             username |-> BOT_USERNAME],
                status |-> answer.status],
   result |-> SendResult(hook_url, answer)]

\* Mutant: the two arguments of the format! in each other's place.
OutputStr_ArgsSwapped(n, district_id) ==
  "Found " \o district_id \o " viable slots for District ID: " \o ToString(n)

\* output_str
OutputStr(n, district_id) ==
  "Found " \o ToString(n) \o " viable slots for District ID: " \o district_id

\* The panic message of `.expect(msg)` on Err(e): msg and the Debug of e.
Expect(msg, debug) == msg \o ": " \o debug

(***************************************************************************)
(* main                                                                    *)
(***************************************************************************)
Init ==
  /\ opts \in OptsValues
  /\ pc = "fetch"
  /\ api_resp = NoResp
  /\ slots = <<>>
  /\ idx = 1
  /\ net = <<>>
  /\ err = ""
  /\ exit_code = RUNNING
  /\ stdout = <<>>

\* A panic of main: the message goes to the terminal, the process exits 101.
Panic(msg) ==
  /\ pc' = "panicked"
  /\ err' = msg
  /\ exit_code' = PANIC_EXIT

\* `fetch_district_slots(opts.district_id.clone()).expect(...)`, the API
\* answering with responses over `sessionSet`: up to MaxCenters centers with
\* up to MaxTotalSessions sessions between them.
FetchFrom(sessionSet) ==
  /\ pc = "fetch"
  /\ \E today \in TodayIST, status \in {TRANSPORT_ERROR} \cup GetStatuses :
     \* A failed send() has a source and no body; a body that serde_json
     \* rejects has no centers to draw.
     \E source \in IF status = TRANSPORT_ERROR
                     THEN TransportFailures ELSE {NoError},
        json_err \in IF status = TRANSPORT_ERROR
                       THEN {NoError} ELSE {NoError} \cup JsonErrors :
       \E c \in IF status # TRANSPORT_ERROR /\ json_err = NoError
                   THEN 0..MaxCenters ELSE {0} :
       \E flat \in IF status # TRANSPORT_ERROR /\ json_err = NoError
                      THEN SeqsUpTo(sessionSet, MaxTotalSessions) ELSE {<<>>} :
         \E cut \in Cuts(Len(flat), c) :
           LET answer == GetAnswer(status, source, json_err, NewResp(c, flat, cut))
               r == fetch_district_slots(opts.district_id, today, answer)
           IN /\ net' = Append(net, GetRequest(opts.district_id, today, answer.status))
              /\ IF r.ok
                   THEN /\ api_resp' = r.resp
                        /\ pc' = "filter"
                        /\ UNCHANGED <<err, exit_code>>
                   ELSE /\ Panic(Expect("Failed to fetch districts.", r.debug))
                        /\ UNCHANGED api_resp
  /\ UNCHANGED <<opts, slots, idx, stdout>>

Fetch == FetchFrom(RunSessions)

\* `let slots = check_viable_slots(api_resp, opts.age_18_plus, opts.first_dose_only);`
Filter ==
  /\ pc = "filter"
  /\ slots' = check_viable_slots(api_resp, opts.age_18_plus, opts.first_dose_only)
  /\ idx' = 1
  /\ pc' = "notify"
  /\ UNCHANGED <<opts, api_resp, net, err, exit_code, stdout>>

\* Mutant: a slot POST that fails in transport is tried a second time.
PostSlot_RetryOnce ==
  /\ pc = "notify"
  /\ idx <= Len(slots)
  /\ \E answer \in PostAnswers :
       LET r == post_slot_to_slack(slots[idx], opts.slack_hook,
                                   opts.slack_main_channel, answer) IN
         /\ net' = Append(net, r.request)
         /\ IF r.result.ok
              THEN /\ idx' = idx + 1
                   /\ UNCHANGED <<pc, err, exit_code>>
              ELSE IF net[Len(net)].status # TRANSPORT_ERROR
                THEN UNCHANGED <<idx, pc, err, exit_code>>
                ELSE /\ Panic(Expect("Failed to post message to slack channel.",
                                     r.result.debug))
                     /\ UNCHANGED idx
  /\ UNCHANGED <<opts, api_resp, slots, stdout>>

\* One iteration of `for slot in slots.iter() { post_slot_to_slack(...).expect(...) }`
PostSlot ==
  /\ pc = "notify"
  /\ idx <= Len(slots)
  /\ \E answer \in PostAnswers :
       LET r == post_slot_to_slack(slots[idx], opts.slack_hook,
                                   opts.slack_main_channel, answer) IN
         /\ net' = Append(net, r.request)
         /\ IF r.result.ok
              THEN /\ idx' = idx + 1
                   /\ UNCHANGED <<pc, err, exit_code>>
              ELSE /\ Panic(Expect("Failed to post message to slack channel.",
                                   r.result.debug))
                   /\ UNCHANGED idx
  /\ UNCHANGED <<opts, api_resp, slots, stdout>>

\* `post_debug_to_slack(output_str.clone(), ...).expect(...)` after the loop.
PostDebug ==
  /\ pc = "notify"
  /\ idx > Len(slots)
  /\ \E answer \in PostAnswers :
       LET r == post_debug_to_slack(OutputStr(Len(slots), opts.district_id),
                                    opts.slack_hook, opts.slack_debug_channel,
                                    answer) IN
         /\ net' = Append(net, r.request)
         /\ IF r.result.ok
              THEN /\ pc' = "print"
                   /\ UNCHANGED <<err, exit_code>>
              ELSE Panic(Expect("Failed to post debug message to slack",
                                r.result.debug))
  /\ UNCHANGED <<opts, api_resp, slots, idx, stdout>>

\* The io::Error of a write to stdout that failed (a full device, a closed
\* pipe), as println! reports it.
StdoutErrors ==
  {"No space left on device (os error 28)", "Broken pipe (os error 32)"}

\* `println!("{}", output_str);` and the return of main. println! panics
\* when the write to stdout fails.
Println ==
  /\ pc = "print"
  /\ \/ /\ stdout' = Append(stdout, OutputStr(Len(slots), opts.district_id))
        /\ pc' = "done"
        /\ exit_code' = 0
        /\ UNCHANGED err
     \/ \E e \in StdoutErrors :
          /\ Panic("failed printing to stdout: " \o e)
          /\ UNCHANGED stdout
  /\ UNCHANGED <<opts, api_resp, slots, idx, net>>

Next == Fetch \/ Filter \/ PostSlot \/ PostDebug \/ Println

Spec == Init /\ [][Next]_vars

\* Termination: every HTTP call returns and main is the only thread, so a
\* step that is enabled is eventually taken. How a run ends depends on the
\* number of viable slots and on the answers to the requests: the responses
\* are made of a session that passes every rule and one that passes only
\* with no flag set, for the default district.
FairSessions == {NewSession(10, 18, 5), NewSession(10, 45, 0)}

FairInit ==
  /\ Init
  /\ opts.district_id = "188"

FairFetch == FetchFrom(FairSessions)

FairNext == FairFetch \/ Filter \/ PostSlot \/ PostDebug \/ Println

FairSpec == FairInit /\ [][FairNext]_vars /\ WF_vars(FairNext)

(***************************************************************************)
(* The filter on its own: the state right after a successful fetch, over   *)
(* the full session domain.                                                *)
(***************************************************************************)
FilterInit ==
  /\ opts \in {o \in OptsValues : o.district_id = "188"}
  /\ pc = "filter"
  /\ \E c \in 0..MaxCenters :
       \E flat \in SeqsUpTo(Sessions, MaxTotalSessions) :
         \E cut \in Cuts(Len(flat), c) :
           api_resp = NewResp(c, flat, cut)
  /\ slots = <<>>
  /\ idx = 1
  /\ \E today \in TodayIST : net = <<GetRequest(opts.district_id, today, 200)>>
  /\ err = ""
  /\ exit_code = RUNNING
  /\ stdout = <<>>

FilterNext == Filter

FilterSpec == FilterInit /\ [][FilterNext]_vars

(***************************************************************************)
(* Vocabulary of the properties of the filter.                             *)
(***************************************************************************)
\* check_viable_slots has returned.
Filtered ==
  \/ pc \in {"notify", "print", "done"}
  \/ pc = "panicked" /\ Len(net) > 1

\* The places of the sessions of a response: <<center index, session index>>.
Positions(resp) ==
  UNION {{<<c, k>> : k \in 1..Len(resp.centers[c].sessions)} :
           c \in 1..Len(resp.centers)}

SessionAt(resp, p) == resp.centers[p[1]].sessions[p[2]]

\* Input order: centers outer, sessions inner.
Before(p, q) == p[1] < q[1] \/ (p[1] = q[1] /\ p[2] < q[2])

\* The place of p among the places P, counted from 1 in input order.
Rank(P, p) == Cardinality({q \in P : Before(q, p)}) + 1

\* The inclusion rule of the specification.
Passes(session, only18Plus, onlyFirstDose) ==
  /\ session.available_capacity > 0
  /\ only18Plus => session.min_age_limit <= 18
  /\ onlyFirstDose => session.available_capacity_dose1 >= 5

PassingPositions ==
  {p \in Positions(api_resp) :
     Passes(SessionAt(api_resp, p), opts.age_18_plus, opts.first_dose_only)}

\* The Slot the specification describes for the session at place p.
Projection(resp, p) ==
  [center |-> resp.centers[p[1]].name,
   address |-> resp.centers[p[1]].address,
   date |-> SessionAt(resp, p).date,
   vaccine |-> SessionAt(resp, p).vaccine,
   available_capacity |-> SessionAt(resp, p).available_capacity,
   available_capacity_dose1 |-> SessionAt(resp, p).available_capacity_dose1,
   available_capacity_dose2 |-> SessionAt(resp, p).available_capacity_dose2,
   min_age_limit |-> SessionAt(resp, p).min_age_limit]

\* Every session of the response, projected, in input order.
Flattened(resp) ==
  [i \in 1..Cardinality(Positions(resp)) |->
     Projection(resp, CHOOSE p \in Positions(resp) : Rank(Positions(resp), p) = i)]

\* a is b with some elements left out, from b's j-th and a's i-th element on.
RECURSIVE IsSubseqFrom(_, _, _, _)
IsSubseqFrom(a, i, b, j) ==
  IF i > Len(a) THEN TRUE
  ELSE IF j > Len(b) THEN FALSE
  ELSE IF a[i] = b[j] THEN IsSubseqFrom(a, i + 1, b, j + 1)
  ELSE IsSubseqFrom(a, i, b, j + 1)

\* The response with the sessions that fail Keep left out.
KeepSessions(resp, Keep(_)) ==
  [centers |->
     [c \in 1..Len(resp.centers) |->
        [resp.centers[c] EXCEPT !.sessions = SelectSeq(@, Keep)]]]

NotOlderThan18(session) == session.min_age_limit <= 18
AtLeast5FirstDoses(session) == session.available_capacity_dose1 >= 5

\* The response with one field of the session at place p changed.
WithAge(resp, p, a) ==
  [resp EXCEPT !.centers[p[1]].sessions[p[2]].min_age_limit = a]
WithDose1(resp, p, d) ==
  [resp EXCEPT !.centers[p[1]].sessions[p[2]].available_capacity_dose1 = d]

\* A list of slots with one field blanked.
AgeBlanked(ss) == [k \in 1..Len(ss) |-> [ss[k] EXCEPT !.min_age_limit = 0]]
Dose1Blanked(ss) == [k \in 1..Len(ss) |-> [ss[k] EXCEPT !.available_capacity_dose1 = 0]]

(***************************************************************************)
(* Properties of check_viable_slots (FilterSpec).                          *)
(***************************************************************************)
\* C1: whatever the two flags, every Slot of the output has
\* available_capacity > 0, and there are no more Slots than Sessions with
\* available_capacity > 0: no Session with capacity <= 0 is emitted.
C1_NoSlotWithoutCapacity ==
  Filtered =>
    /\ \A k \in 1..Len(slots) : slots[k].available_capacity > 0
    /\ Len(slots) <= Cardinality({p \in Positions(api_resp) :
                                    SessionAt(api_resp, p).available_capacity > 0})

\* C1 witness: a response with a session of capacity 0, one of negative
\* capacity and one with capacity left went through the filter.
C1_Witness ==
  /\ Filtered
  /\ Len(slots) > 0
  /\ \E p, q \in Positions(api_resp) :
       /\ SessionAt(api_resp, p).available_capacity = 0
       /\ SessionAt(api_resp, q).available_capacity < 0

\* C2: with only_18plus the output is the output the filter gives without
\* that flag for the response with the sessions of min_age_limit > 18 left
\* out (those are excluded, those of 18 and below are not touched by the
\* rule); without only_18plus changing the min_age_limit of any session to
\* any value changes nothing but the min_age_limit copied into its Slot.
C2_AgeRule ==
  Filtered =>
    IF opts.age_18_plus
      THEN /\ \A k \in 1..Len(slots) : slots[k].min_age_limit <= 18
           /\ slots = check_viable_slots(KeepSessions(api_resp, NotOlderThan18),
                                         FALSE, opts.first_dose_only)
      ELSE \A p \in Positions(api_resp), a \in AgeValues :
             AgeBlanked(check_viable_slots(WithAge(api_resp, p, a), FALSE,
                                           opts.first_dose_only))
               = AgeBlanked(slots)

\* C2 witness: with only_18plus, a session limited to 19+ with capacity left
\* was dropped and a session with a limit below 18 was emitted.
C2_Witness ==
  /\ Filtered
  /\ opts.age_18_plus
  /\ \E p \in Positions(api_resp) :
       /\ SessionAt(api_resp, p).min_age_limit > 18
       /\ SessionAt(api_resp, p).available_capacity > 0
       /\ SessionAt(api_resp, p).available_capacity_dose1 >= 5
  /\ \E k \in 1..Len(slots) : slots[k].min_age_limit < 18

\* C3: with only_first_dose the output is the output the filter gives
\* without that flag for the response with the sessions of
\* available_capacity_dose1 < 5 left out (1..4 are excluded, 5 is admitted);
\* without only_first_dose changing the available_capacity_dose1 of any
\* session to any value changes nothing but the value copied into its Slot.
C3_FirstDoseRule ==
  Filtered =>
    IF opts.first_dose_only
      THEN /\ \A k \in 1..Len(slots) : slots[k].available_capacity_dose1 >= 5
           /\ slots = check_viable_slots(KeepSessions(api_resp, AtLeast5FirstDoses),
                                         opts.age_18_plus, FALSE)
      ELSE \A p \in Positions(api_resp), d \in Dose1Values :
             Dose1Blanked(check_viable_slots(WithDose1(api_resp, p, d),
                                             opts.age_18_plus, FALSE))
               = Dose1Blanked(slots)

\* C3 witness: with only_first_dose, a session with 4 first doses and
\* capacity left was dropped while one with exactly 5 was emitted.
C3_Witness ==
  /\ Filtered
  /\ opts.first_dose_only
  /\ ~opts.age_18_plus
  /\ \E p \in Positions(api_resp) :
       /\ SessionAt(api_resp, p).available_capacity_dose1 = 4
       /\ SessionAt(api_resp, p).available_capacity > 0
  /\ Len(slots) = 1
  /\ slots[1].available_capacity_dose1 = 5

\* C4: the output is an order-preserving subsequence of the projected
\* sessions of the response taken center by center, session by session.
C4_OrderPreserved ==
  Filtered => IsSubseqFrom(slots, 1, Flattened(api_resp), 1)

\* C4 witness: slots of two different centers, and two different slots of
\* one center, were emitted by one call.
C4_Witness ==
  /\ Filtered
  /\ Len(slots) >= 3
  /\ slots[1].center = slots[2].center
  /\ slots[1] # slots[2]
  /\ slots[2].center # slots[3].center

\* C10: a session is emitted exactly when it passes every active rule; the
\* n-th passing session in input order is the n-th Slot and carries the
\* fields of that session and the name and address of its own center; so
\* the output is never longer than the number of sessions.
C10_ExactAndLossless ==
  Filtered =>
    /\ Len(slots) = Cardinality(PassingPositions)
    /\ Len(slots) <= Cardinality(Positions(api_resp))
    /\ \A p \in PassingPositions :
         slots[Rank(PassingPositions, p)] = Projection(api_resp, p)

\* C10 witness: of two centers with different names, both with sessions,
\* some sessions were emitted and some dropped.
C10_Witness ==
  /\ Filtered
  /\ Len(api_resp.centers) = 2
  /\ api_resp.centers[1].name # api_resp.centers[2].name
  /\ \E k, l \in 1..Len(slots) : slots[k].center # slots[l].center
  /\ Len(slots) < Cardinality(Positions(api_resp))

(***************************************************************************)
(* Vocabulary of the properties of a run.                                  *)
(***************************************************************************)
\* The request got a response with a success status.
Succeeded(e) == e.status = 200

AllSucceeded == \A k \in 1..Len(net) : Succeeded(net[k])

Gets == {k \in 1..Len(net) : net[k].method = "GET"}
Posts == {k \in 1..Len(net) : net[k].method = "POST"}
MainPosts == {k \in Posts : net[k].payload.channel = opts.slack_main_channel}
DebugPosts == {k \in Posts : net[k].payload.channel = opts.slack_debug_channel}

Terminated == pc \in {"done", "panicked"}

(***************************************************************************)
(* Properties of a run (Spec, FairSpec).                                   *)
(***************************************************************************)
\* C5: while every request so far succeeded, the events are: first the GET,
\* then the main-channel POST of the 1st, 2nd, ... viable slot, and only
\* after the POST of the last slot the one debug-channel POST, whose text is
\* "Found N viable slots for District ID: D" with N the number of
\* main-channel POSTs sent and D the configured district; a run that ends
\* with exit code 0 has sent all of them, and after a response without
\* centers that is the GET and the debug POST reading "Found 0 viable ...".
C5_EventOrder ==
  AllSucceeded =>
    /\ \A k \in 1..Len(net) :
         /\ k = 1 <=> net[k].method = "GET"
         /\ (k > 1 /\ k <= Len(slots) + 1) =>
              /\ k \in MainPosts
              /\ net[k].payload.text = SlotText(slots[k - 1])
         /\ k > Len(slots) + 1 =>
              /\ k = Len(slots) + 2
              /\ k \in DebugPosts
              /\ Cardinality(MainPosts) = Len(slots)
              /\ net[k].payload.text =
                   "Found " \o ToString(Cardinality(MainPosts))
                     \o " viable slots for District ID: " \o opts.district_id
    /\ pc = "done" =>
         /\ Len(net) = Len(slots) + 2
         /\ Cardinality(DebugPosts) = 1
         /\ Len(api_resp.centers) = 0 =>
              /\ MainPosts = {}
              /\ net[2].payload.text =
                   "Found 0 viable slots for District ID: " \o opts.district_id

\* C5 witness: a run with two viable slots ended with exit code 0 and every
\* request answered 200.
C5_Witness ==
  /\ pc = "done"
  /\ AllSucceeded
  /\ Len(slots) = 2
  /\ Len(net) = 4

\* C6: when the GET is answered with a status other than 200, the fetch
\* error names that status, the process ends with a non-zero exit code and
\* the GET is the only request of the run: no POST is ever sent.
C6_BadStatusAborts ==
  (Len(net) >= 1 /\ net[1].status \notin {200, TRANSPORT_ERROR}) =>
    /\ pc = "panicked"
    /\ exit_code # 0
    /\ exit_code # RUNNING
    /\ err = "Failed to fetch districts.: ErrorMessage { msg: \"Bad Return Code: "
               \o ToString(net[1].status) \o " "
               \o CanonicalReason(net[1].status) \o "\" }"
    /\ Len(net) = 1
    /\ Posts = {}
    /\ stdout = <<>>

\* C6 witness: the API answered the GET with 500.
C6_Witness ==
  /\ Len(net) = 1
  /\ net[1].method = "GET"
  /\ net[1].status = 500
  /\ pc = "panicked"

\* C7: a POST that the webhook rejects or that fails in transport makes the
\* notifier return an error, so that the run is aborted right there with a
\* non-zero exit code.
C7_NonSuccessPostIsAnError ==
  \A k \in Posts :
    (k = Len(net) /\ ~Succeeded(net[k])) =>
      /\ pc = "panicked"
      /\ exit_code = PANIC_EXIT

\* C8: a failed POST is the last request of its run (the slots before it
\* were posted once each, no later slot and no debug summary is posted), the
\* run then ends with a non-zero exit code, and exit code 0 means that the
\* GET, every slot POST and the debug POST all succeeded.
C8_AbortOnFirstFailedPost ==
  /\ \A k \in Posts :
       ~Succeeded(net[k]) =>
         /\ Len(net) = k
         /\ Cardinality(MainPosts) <= Len(slots)
         /\ exit_code # 0
  /\ exit_code = 0 =>
       /\ AllSucceeded
       /\ Cardinality(MainPosts) = Len(slots)
       /\ Cardinality(DebugPosts) = 1

\* What the code does guarantee about failed notifications: a POST that
\* fails in transport is the last request of its run, the run panics, and a
\* run that ends with exit code 0 had no transport failure and sent one POST
\* per slot and the debug POST.
TransportFailureAborts ==
  /\ \A k \in Posts :
       net[k].status = TRANSPORT_ERROR =>
         /\ Len(net) = k
         /\ pc = "panicked"
         /\ exit_code = PANIC_EXIT
  /\ exit_code = 0 =>
       /\ \A k \in 1..Len(net) : net[k].status # TRANSPORT_ERROR
       /\ Cardinality(MainPosts) = Len(slots)
       /\ Cardinality(DebugPosts) = 1

\* C9 (safety part): there is never more than one GET, and exactly one once
\* the fetch is over; the j-th main-channel POST is the POST of the j-th
\* viable slot, so no slot is posted twice; there is at most one debug POST
\* and at most (number of viable slots + 1) POSTs.
C9_NoRetry ==
  /\ Cardinality(Gets) <= 1
  /\ pc # "fetch" => Gets = {1}
  /\ Cardinality(MainPosts) <= Len(slots)
  /\ \A k \in MainPosts :
       /\ k <= Len(slots) + 1
       /\ net[k].payload.text = SlotText(slots[k - 1])
  /\ Cardinality(DebugPosts) <= 1
  /\ Cardinality(Posts) <= Len(slots) + 1

\* C9: no request is ever retried, and every run ends, with exit code 0 or
\* with a panic (FairSpec: every HTTP call returns).
C9_NoRetryAndTermination ==
  /\ []C9_NoRetry
  /\ <>Terminated

\* C9 witness: a run that posted two slots and the debug summary has ended.
C9_Witness ==
  /\ Terminated
  /\ Cardinality(MainPosts) = 2
  /\ Cardinality(DebugPosts) = 1

====
